---- MODULE Spec2Model ----
(***************************************************************************)
(* The coordinator of the uptime service: the batch state machine (State), *)
(* one iteration of the loop (process), the persistence of a batch         *)
(* (process_statehash_df) and the transaction discipline on the single     *)
(* Postgres connection.                                                    *)
(*                                                                         *)
(* Time is counted in whole minutes since the seed row's batch_end_epoch;  *)
(* the epochs stored in bot_logs are seconds (datetime.timestamp()).       *)
(* The database is a pair: `committed` is what a second connection would   *)
(* see, `txn` is what the coordinator's connection sees (committed rows    *)
(* plus its own uncommitted writes). commit copies txn to committed,      *)
(* rollback copies committed to txn.                                       *)
(***************************************************************************)
EXTENDS Integers, Sequences, FiniteSets, TLC

VARIABLES
    batch,              \* State.batch: [start_time, end_time, bot_log_id]
    current_timestamp,  \* State.current_timestamp (cached clock reading)
    retrials_left,      \* State.retrials_left
    loop_count,         \* State.loop_count
    stop,               \* State.stop
    now,                \* the wall clock, datetime.now(timezone.utc)
    pc,                 \* position of the main loop / process()
    loc,                \* locals of process() and process_statehash_df()
    committed,          \* database: committed rows
    txn,                \* database: the view of the coordinator's connection
    store,              \* submission store: window index -> kind of content
    storage,            \* Config.SUBMISSION_STORAGE
    sb_calls,           \* as_of arguments of the update_scoreboard calls so far
    attempts,           \* iterations started for the current window
    advances,           \* advance_to_next_batch calls so far
    env,                \* the environment variables Config reads
    warned              \* the last advance logged the overrun warning

vars == <<batch, current_timestamp, retrials_left, loop_count, stop, now, pc,
          loc, committed, txn, store, storage, env, sb_calls, attempts, advances, warned>>

----------------------------------------------------------------------------
(* Bounds of the model *)

\* number of batch windows the model follows
MaxBatches == 2
\* the clock when the coordinator starts, in minutes after the seed row's end
StartMinute == 10
\* no dispatch that takes minutes ends after this minute
MaxClock == 50

(* Program constants *)

\* Config.RETRY_COUNT
RETRY_COUNT == 3
\* Config.SURVEY_INTERVAL_MINUTES
SURVEY_INTERVAL_MINUTES == 20
\* timedelta(minutes=2) in wait_until_batch_ends
SafetyMarginMinutes == 2
\* Config.MINI_BATCH_NUMBER
MINI_BATCH_NUMBER == 2
\* threshold of filter_state_hash_percentage, in percent
FilterPercent == 50

STORAGE_CASSANDRA == "cassandra"
STORAGE_POSTGRES == "postgres"
\* Config.VALID_STORAGE_OPTIONS
VALID_STORAGE_OPTIONS == {STORAGE_CASSANDRA, STORAGE_POSTGRES}

\* an environment: which of the variables of the Keyspaces client are set,
\* and whether the application status update is switched off
Env(user_pass, role_arn, token_file, session_name, ignore_status) ==
    [cassandra_user_pass |-> user_pass,
     role_arn |-> role_arn,
     web_identity_token_file |-> token_file,
     role_session_name |-> session_name,
     ignore_application_status |-> ignore_status]

\* AWSKeyspacesClient.__init__ returns: with a user name and a password it
\* takes the plain text provider, otherwise _create_sigv4auth_provider raises
\* when a role is to be assumed and the token file or the session name is
\* not set
AWSKeyspacesClient(e) ==
    \/ e.cassandra_user_pass
    \/ ~e.role_arn
    \/ (e.web_identity_token_file /\ e.role_session_name)

\* a deployment with Cassandra credentials and no application status update
DeployedEnv == Env(TRUE, FALSE, FALSE, FALSE, TRUE)

\* minutes the application status update may take: under a minute, or a
\* quarter of an hour
StatusMinutes == {0, 15}

\* minutes a dispatch of the workers may take: under a minute, or longer than
\* a window
DispatchMinutes == {0, SURVEY_INTERVAL_MINUTES + 5}

\* datetime.timestamp(): minutes since the seed -> epoch seconds
Timestamp(t) == 60 * t
\* datetime.fromtimestamp(): epoch seconds -> minutes
FromTimestamp(e) == e \div 60

----------------------------------------------------------------------------
(* The submission store *)

\* validation_error = None
None == "<None>"

Kinds == {"empty", "unverified", "chain", "scattered"}

\* index of the window that starts at minute s
WindowOf(s) == s \div SURVEY_INTERVAL_MINUTES

Sub(w, who, h, par, mini, ver, err) ==
    [window |-> w, submitter |-> who, state_hash |-> h, parent |-> par,
     mini |-> mini, verified |-> ver, validation_error |-> err]

\* the submissions with submitted_at in window w, for each kind of content;
\* `mini` is the index of the mini-interval submitted_at falls into
Submissions(w, kind) ==
    LET h == 10 * (w + 1)
        p == 10 * w
    IN CASE kind = "empty" -> {}
         [] kind = "unverified" ->
              { Sub(w, "n1", h, p, 0, FALSE, ""),
                Sub(w, "n2", h, p, 1, TRUE, "bad block") }
         [] kind = "chain" ->
              { Sub(w, "n1", h, p, 0, TRUE, ""),
                Sub(w, "n2", h, p, 1, TRUE, None),
                Sub(w, "n3", h + 1, p, 1, FALSE, ""),
                Sub(w, "n4", h + 3, p, 0, TRUE, "") }
         [] kind = "scattered" ->
              { Sub(w, "n1", h, p, 0, TRUE, ""),
                Sub(w, "n2", h + 1, p, 0, TRUE, ""),
                Sub(w, "n3", h + 2, h, 1, TRUE, "") }

----------------------------------------------------------------------------
(* The database *)

EmptyTables ==
    [bot_logs |-> <<>>, statehash |-> {}, nodes |-> {},
     statehash_results |-> {}, point_record |-> {},
     scoreboard |-> -1, submissions |-> {}]

\* tasks.init_database: the seed row, batch_start_epoch = batch_end_epoch
SeedRow == [id |-> 1, files_processed |-> -1,
            batch_start_epoch |-> Timestamp(0), batch_end_epoch |-> Timestamp(0)]

\* DB.get_batch_timings: the window after the latest bot_log row
get_batch_timings(db, interval) ==
    LET last == db.bot_logs[Len(db.bot_logs)]
        prev_end == FromTimestamp(last.batch_end_epoch)
    IN [start_time |-> prev_end, end_time |-> prev_end + interval,
        bot_log_id |-> last.id]

\* DB.create_bot_log: append the row, return the new id
NewBotLogId(db) ==
    IF db.bot_logs = <<>> THEN 1 ELSE db.bot_logs[Len(db.bot_logs)].id + 1

create_bot_log(db, files, b) ==
    [db EXCEPT !.bot_logs = Append(@,
        [id |-> NewBotLogId(db), files_processed |-> files,
         batch_start_epoch |-> Timestamp(b.start_time),
         batch_end_epoch |-> Timestamp(b.end_time)])]

NoLocals ==
    [state_hash_df |-> {}, all_submissions |-> {}, read_error |-> FALSE,
     state_hash_to_insert |-> {}, create_statehash_called |-> FALSE,
     shortlist |-> {}, point_record_df |-> {}, bot_log_id |-> 0,
     duration |-> 0]

----------------------------------------------------------------------------
\* state hashes of a database that was in use before it was seeded again
\* (init_database --override-empty inserts the seed row whatever is stored)
StoredBefore == {0, 10, 13}

\* main up to the loop: the database as seeded, holding the state hashes
\* `stored`
InitWith(stored) ==
    /\ committed = [EmptyTables EXCEPT !.bot_logs = <<SeedRow>>,
                                      !.statehash = stored]
    /\ txn = committed
    /\ batch = get_batch_timings(committed, SURVEY_INTERVAL_MINUTES)
    /\ now = StartMinute
    /\ current_timestamp = now
    /\ retrials_left = RETRY_COUNT
    /\ loop_count = 0
    /\ stop = FALSE
    /\ pc = "main"
    /\ loc = NoLocals
    /\ store \in [0 .. MaxBatches - 1 -> Kinds]
    /\ storage \in {STORAGE_CASSANDRA, STORAGE_POSTGRES}
    /\ sb_calls = <<>>
    /\ attempts = 0
    /\ advances = 0
    /\ env = DeployedEnv
    /\ warned = FALSE

\* the coordinator started on a freshly created and seeded database
Init == InitWith({})

\* the coordinator started on a seeded database that holds state hashes
InitStored == InitWith(StoredBefore)

----------------------------------------------------------------------------
(* State: the batch state machine *)

\* Batch.next
BatchNext(b, next_bot_log_id) ==
    [start_time |-> b.end_time,
     end_time |-> b.end_time + SURVEY_INTERVAL_MINUTES,
     bot_log_id |-> next_bot_log_id]

\* wait_until_batch_ends sleeping without the two minutes on top
wait_until_batch_ends_NoMargin ==
    IF batch.end_time > current_timestamp
    THEN LET sleep_interval == batch.end_time - current_timestamp
         IN /\ now' = now + sleep_interval
            /\ current_timestamp' = now'
    ELSE UNCHANGED <<now, current_timestamp>>

\* State.wait_until_batch_ends
wait_until_batch_ends ==
    IF batch.end_time > current_timestamp
    THEN LET sleep_interval ==
                 (batch.end_time - current_timestamp) + SafetyMarginMinutes
         IN /\ now' = now + sleep_interval
            /\ current_timestamp' = now'
    ELSE UNCHANGED <<now, current_timestamp>>

\* State.__warn_if_work_took_longer_then_expected: the test that logs the
\* warning, on the batch and the cached time of the state at the call
warn_if_work_took_longer_then_expected(b, timestamp) ==
    b.start_time >= timestamp

\* advance_to_next_batch without the reset of retrials_left
advance_to_next_batch_NoReset(next_bot_log_id) ==
    /\ batch' = BatchNext(batch, next_bot_log_id)
    /\ warned' = warn_if_work_took_longer_then_expected(batch',
                                                         current_timestamp)
    /\ loop_count' = loop_count + 1
    /\ current_timestamp' = now
    /\ attempts' = 0
    /\ advances' = advances + 1
    /\ UNCHANGED <<stop, retrials_left>>

\* advance_to_next_batch keeping the old window and taking only the new id
advance_to_next_batch_KeepsWindow(next_bot_log_id) ==
    /\ retrials_left' = RETRY_COUNT
    /\ batch' = [batch EXCEPT !.bot_log_id = next_bot_log_id]
    /\ warned' = warn_if_work_took_longer_then_expected(batch',
                                                         current_timestamp)
    /\ loop_count' = loop_count + 1
    /\ current_timestamp' = now
    /\ attempts' = 0
    /\ advances' = advances + 1
    /\ UNCHANGED stop

\* advance_to_next_batch without the refresh of current_timestamp
advance_to_next_batch_StaleTimestamp(next_bot_log_id) ==
    /\ retrials_left' = RETRY_COUNT
    /\ batch' = BatchNext(batch, next_bot_log_id)
    /\ warned' = warn_if_work_took_longer_then_expected(batch',
                                                         current_timestamp)
    /\ loop_count' = loop_count + 1
    /\ attempts' = 0
    /\ advances' = advances + 1
    /\ UNCHANGED <<stop, current_timestamp>>

\* State.advance_to_next_batch
advance_to_next_batch(next_bot_log_id) ==
    /\ retrials_left' = RETRY_COUNT
    /\ batch' = BatchNext(batch, next_bot_log_id)
    /\ warned' = warn_if_work_took_longer_then_expected(batch',
                                                         current_timestamp)
    /\ loop_count' = loop_count + 1
    /\ current_timestamp' = now
    /\ attempts' = 0
    /\ advances' = advances + 1
    /\ UNCHANGED stop

\* retry_batch moving on to the next window
retry_batch_SkipsWindow ==
    /\ IF retrials_left > 0
       THEN retrials_left' = retrials_left - 1 /\ UNCHANGED stop
       ELSE stop' = TRUE /\ UNCHANGED retrials_left
    /\ loop_count' = loop_count + 1
    /\ current_timestamp' = now
    /\ batch' = BatchNext(batch, batch.bot_log_id)
    /\ UNCHANGED <<attempts, advances, warned>>

\* State.retry_batch
retry_batch ==
    /\ IF retrials_left > 0
       THEN retrials_left' = retrials_left - 1 /\ UNCHANGED stop
       ELSE stop' = TRUE /\ UNCHANGED retrials_left
    /\ loop_count' = loop_count + 1
    /\ current_timestamp' = now
    /\ UNCHANGED <<batch, attempts, advances, warned>>

----------------------------------------------------------------------------
(* load_submissions *)

\* the filter of load_submissions without the test of validation_error
Verified_IgnoresError(subs) == { s \in subs : s.verified }

Verified(subs) ==
    { s \in subs : s.verified /\ (s.validation_error = None
                                  \/ s.validation_error = "") }

\* what the store holds for the window of batch b
InWindow(b) == Submissions(WindowOf(b.start_time), store[WindowOf(b.start_time)])

\* results [state_hash_df, all_submissions] of load_submissions: `read` is the
\* number of mini-intervals read before the store raises (MINI_BATCH_NUMBER:
\* none raises); the Postgres store reads the whole window in one query
load_submissions(b, submission_storage, read) ==
    IF read = MINI_BATCH_NUMBER
    THEN [state_hash_df |-> Verified(InWindow(b)), all_submissions |-> InWindow(b),
          read_error |-> FALSE]
    ELSE [state_hash_df |-> {},
          read_error |-> TRUE,
          all_submissions |->
              IF submission_storage = STORAGE_CASSANDRA
              THEN { s \in InWindow(b) : s.mini < read }
              ELSE {}]

----------------------------------------------------------------------------
(* The main loop and process() up to the read of the submissions *)

\* main with a loop condition that does not read state.stop
Main_IgnoresStop ==
    /\ pc = "main"
    /\ WindowOf(batch.start_time) < MaxBatches
    /\ pc' = "status"
    /\ attempts' = attempts + 1
    /\ loc' = NoLocals
    /\ UNCHANGED <<batch, current_timestamp, retrials_left, loop_count, stop,
                   now, committed, txn, store, storage, env, sb_calls, advances, warned>>

\* main: while not state.stop
Main ==
    /\ pc = "main"
    /\ WindowOf(batch.start_time) < MaxBatches
    /\ pc' = IF stop THEN "exit" ELSE "status"
    /\ attempts' = IF stop THEN attempts ELSE attempts + 1
    /\ loc' = NoLocals
    /\ UNCHANGED <<batch, current_timestamp, retrials_left, loop_count, stop,
                   now, committed, txn, store, storage, env, sb_calls, advances, warned>>

\* main: the application status update, skipped when the environment says
\* so; it takes time, and its exception is logged and dropped
ApplicationStatus ==
    /\ pc = "status"
    /\ IF env.ignore_application_status
       THEN UNCHANGED now
       ELSE \E d \in StatusMinutes :
              /\ now + d <= MaxClock
              /\ now' = now + d
    /\ pc' = "wait"
    /\ UNCHANGED <<batch, current_timestamp, retrials_left, loop_count, stop,
                   loc, committed, txn, store, storage, env, sb_calls,
                   attempts, advances, warned>>

\* process going from the wait to the read of the submissions, without
\* the dispatch of the workers
Wait_SkipsDispatch ==
    /\ pc = "wait"
    /\ wait_until_batch_ends
    /\ pc' = "load"
    /\ UNCHANGED <<batch, retrials_left, loop_count, stop, loc, committed, txn,
                   store, storage, env, sb_calls, attempts, advances, warned>>

\* process: state.wait_until_batch_ends()
Wait ==
    /\ pc = "wait"
    /\ wait_until_batch_ends
    /\ pc' = "dispatch"
    /\ UNCHANGED <<batch, retrials_left, loop_count, stop, loc, committed, txn,
                   store, storage, env, sb_calls, attempts, advances, warned>>

\* process: setUpValidatorPods / setUpValidatorProcesses, blocking, under
\* the timer whose duration is read after the call; the webhook alarms change
\* no state of the coordinator
Dispatch ==
    /\ pc = "dispatch"
    /\ \E d \in DispatchMinutes :
         /\ d > 0 => now + d <= MaxClock
         /\ now' = now + d
         /\ loc' = [loc EXCEPT !.duration = d]
    /\ pc' = "load"
    /\ UNCHANGED <<batch, current_timestamp, retrials_left, loop_count, stop,
                   committed, txn, store, storage, env, sb_calls, attempts,
                   advances, warned>>

\* process: load_submissions and the branch on state_hash_df.empty
Load ==
    /\ pc = "load"
    /\ IF storage = STORAGE_CASSANDRA /\ ~AWSKeyspacesClient(env)
       THEN pc' = "crashed" /\ UNCHANGED loc
       ELSE \E read \in (IF storage = STORAGE_CASSANDRA
                         THEN 0 .. MINI_BATCH_NUMBER
                         ELSE {0, MINI_BATCH_NUMBER}) :
              LET r == load_submissions(batch, storage, read)
              IN /\ loc' = [loc EXCEPT !.state_hash_df = r.state_hash_df,
                                       !.all_submissions = r.all_submissions,
                                       !.read_error = r.read_error]
                 /\ pc' = IF r.state_hash_df # {} THEN "create_statehash"
                          ELSE "empty_bot_log"
    /\ UNCHANGED <<batch, current_timestamp, retrials_left, loop_count, stop,
                   now, committed, txn, store, storage, env, sb_calls,
                   attempts, advances, warned>>

----------------------------------------------------------------------------
(* process_statehash_df: the chain selection *)

\* find_new_values_to_insert: the values not yet stored
find_new_values_to_insert(existing, new) == new \ existing

\* pd.unique over the state_hash and parent_state_hash columns of master_df
BatchHashes(master_df) ==
    { s.state_hash : s \in master_df } \cup { s.parent : s \in master_df }

\* master_df["submitter"].unique()
BatchNodes(master_df) == { s.submitter : s \in master_df }

\* DB.get_previous_statehash: the canonical fragment stored for bot_log_id
get_previous_statehash(db, bot_log_id) ==
    LET rows == { r \in db.statehash_results : r.bot_log_id = bot_log_id }
    IN [relations |-> { <<r.parent_state_hash, r.state_hash>> : r \in rows },
        selected |-> { r.state_hash : r \in rows }]

\* filter_state_hash_percentage: the state hashes seen by at least
\* FilterPercent of the batch's submitters
filter_state_hash_percentage(master_df) ==
    LET observers(h) == { s.submitter : s \in { x \in master_df : x.state_hash = h } }
    IN { h \in { s.state_hash : s \in master_df } :
           100 * Cardinality(observers(h))
               >= FilterPercent * Cardinality(BatchNodes(master_df)) }

\* create_graph: the parent -> child edges of the batch and of the previous
\* canonical fragment
create_graph(master_df, p_map) ==
    { <<s.parent, s.state_hash>> : s \in master_df } \cup p_map

\* bfs: every node reachable from the queued seeds
RECURSIVE Reach(_, _)
Reach(graph, seen) ==
    LET next == seen \cup { e[2] : e \in { x \in graph : x[1] \in seen } }
    IN IF next = seen THEN seen ELSE Reach(graph, next)

bfs(graph, queue_list) == Reach(graph, queue_list)

\* the chain selection with the shortlist pruned to the hashes selected in this
\* batch instead of the hashes submitted in it
ChainSelection_PrunesToSelected(db, b, master_df) ==
    LET prev == get_previous_statehash(db, b.bot_log_id)
        c_selected_node == filter_state_hash_percentage(master_df)
        queue_list == prev.selected \cup c_selected_node
        batch_state_hash == { s.state_hash : s \in master_df }
        shortlisted == bfs(create_graph(master_df, prev.relations), queue_list)
        pruned == { h \in shortlisted : h \in c_selected_node }
    IN [queue_list |-> queue_list,
        point_record_df |-> { s \in master_df : s.state_hash \in shortlisted },
        shortlist |->
            { [state_hash |-> h,
               parent_state_hash |->
                   (CHOOSE s \in master_df : s.state_hash = h).parent]
              : h \in pruned }]

\* the chain selection without the pruning of the shortlist to the batch
ChainSelection_NoPrune(db, b, master_df) ==
    LET prev == get_previous_statehash(db, b.bot_log_id)
        c_selected_node == filter_state_hash_percentage(master_df)
        queue_list == prev.selected \cup c_selected_node
        batch_state_hash == { s.state_hash : s \in master_df }
        shortlisted == bfs(create_graph(master_df, prev.relations), queue_list)
        pruned == shortlisted
    IN [queue_list |-> queue_list,
        point_record_df |-> { s \in master_df : s.state_hash \in shortlisted },
        shortlist |->
            { [state_hash |-> h,
               parent_state_hash |->
                   IF \E s \in master_df : s.state_hash = h
                   THEN (CHOOSE s \in master_df : s.state_hash = h).parent
                   ELSE h]
              : h \in pruned }]

\* the chain selection with a point record for every row of master_df
ChainSelection_PointsForAll(db, b, master_df) ==
    LET prev == get_previous_statehash(db, b.bot_log_id)
        c_selected_node == filter_state_hash_percentage(master_df)
        queue_list == prev.selected \cup c_selected_node
        batch_state_hash == { s.state_hash : s \in master_df }
        shortlisted == bfs(create_graph(master_df, prev.relations), queue_list)
        pruned == { h \in shortlisted : h \in batch_state_hash }
    IN [queue_list |-> queue_list,
        point_record_df |-> master_df,
        shortlist |->
            { [state_hash |-> h,
               parent_state_hash |->
                   (CHOOSE s \in master_df : s.state_hash = h).parent]
              : h \in pruned }]

\* the part of process_statehash_df between create_node_record and
\* create_bot_log: queue_list, the shortlist pruned to the batch with the
\* parents attached, and point_record_df
ChainSelection(db, b, master_df) ==
    LET prev == get_previous_statehash(db, b.bot_log_id)
        c_selected_node == filter_state_hash_percentage(master_df)
        queue_list == prev.selected \cup c_selected_node
        batch_state_hash == { s.state_hash : s \in master_df }
        shortlisted == bfs(create_graph(master_df, prev.relations), queue_list)
        pruned == { h \in shortlisted : h \in batch_state_hash }
    IN [queue_list |-> queue_list,
        point_record_df |-> { s \in master_df : s.state_hash \in shortlisted },
        shortlist |->
            { [state_hash |-> h,
               parent_state_hash |->
                   (CHOOSE s \in master_df : s.state_hash = h).parent]
              : h \in pruned }]

----------------------------------------------------------------------------
(* process: the branch with verified submissions (lines 374-384) *)

StateUnchanged ==
    UNCHANGED <<batch, current_timestamp, retrials_left, loop_count, stop,
                attempts, advances, warned>>

\* get_statehash_df, get_existing_nodes, create_statehash
\* create_statehash given every hash of the batch, stored or not
CreateStatehash_InsertsAll ==
    /\ pc = "create_statehash"
    /\ LET state_hash_to_insert == BatchHashes(loc.state_hash_df)
       IN \E ok \in BOOLEAN :
            IF ok
            THEN /\ txn' = [txn EXCEPT !.statehash = @ \cup state_hash_to_insert]
                 /\ loc' = [loc EXCEPT
                        !.state_hash_to_insert = state_hash_to_insert,
                        !.create_statehash_called = TRUE]
                 /\ pc' = "create_node_record"
            ELSE pc' = "except_batch" /\ UNCHANGED <<txn, loc>>
    /\ StateUnchanged
    /\ UNCHANGED <<now, committed, store, storage, env, sb_calls>>

\* get_statehash_df, get_existing_nodes, find_new_values_to_insert and
\* create_statehash, called when there are state hashes to insert
CreateStatehash ==
    /\ pc = "create_statehash"
    /\ LET state_hash_to_insert ==
               find_new_values_to_insert(txn.statehash,
                                         BatchHashes(loc.state_hash_df))
       IN \E ok \in BOOLEAN :
            IF ok
            THEN /\ txn' = [txn EXCEPT !.statehash = @ \cup state_hash_to_insert]
                 /\ loc' = [loc EXCEPT
                        !.state_hash_to_insert = state_hash_to_insert,
                        !.create_statehash_called = (state_hash_to_insert # {})]
                 /\ pc' = "create_node_record"
            ELSE pc' = "except_batch" /\ UNCHANGED <<txn, loc>>
    /\ StateUnchanged
    /\ UNCHANGED <<now, committed, store, storage, env, sb_calls>>

\* create_node_record, called when there are nodes to insert
CreateNodeRecord ==
    /\ pc = "create_node_record"
    /\ LET node_to_insert ==
               find_new_values_to_insert(txn.nodes, BatchNodes(loc.state_hash_df))
       IN \E ok \in (IF node_to_insert = {} THEN {TRUE} ELSE BOOLEAN) :
            IF ok
            THEN /\ txn' = [txn EXCEPT !.nodes = @ \cup node_to_insert]
                 /\ pc' = "select"
            ELSE pc' = "except_batch" /\ UNCHANGED txn
    /\ StateUnchanged
    /\ UNCHANGED <<now, loc, committed, store, storage, env, sb_calls>>

\* get_previous_statehash, the graph and the BFS; queue_list[0] raises
\* IndexError on an empty queue_list
Select ==
    /\ pc = "select"
    /\ LET sel == ChainSelection(txn, batch, loc.state_hash_df)
       IN \E ok \in (IF sel.queue_list = {} THEN {FALSE} ELSE BOOLEAN) :
            IF ok
            THEN /\ loc' = [loc EXCEPT !.shortlist = sel.shortlist,
                                       !.point_record_df = sel.point_record_df]
                 /\ pc' = "create_bot_log"
            ELSE pc' = "except_batch" /\ UNCHANGED loc
    /\ StateUnchanged
    /\ UNCHANGED <<now, committed, txn, store, storage, env, sb_calls>>

\* create_bot_log committing the transaction on its own
CreateBotLog_Autocommit ==
    /\ pc = "create_bot_log"
    /\ \E ok \in BOOLEAN :
         IF ok
         THEN /\ txn' = create_bot_log(txn, Cardinality(loc.state_hash_df), batch)
              /\ committed' = txn'
              /\ loc' = [loc EXCEPT !.bot_log_id = NewBotLogId(txn)]
              /\ pc' = "insert_statehash_results"
         ELSE pc' = "except_batch" /\ UNCHANGED <<txn, loc, committed>>
    /\ StateUnchanged
    /\ UNCHANGED <<now, store, storage, env, sb_calls>>

\* bot_log_id = db.create_bot_log(values), values[0] = all_files_count
CreateBotLog ==
    /\ pc = "create_bot_log"
    /\ \E ok \in BOOLEAN :
         IF ok
         THEN /\ txn' = create_bot_log(txn, Cardinality(loc.state_hash_df), batch)
              /\ loc' = [loc EXCEPT !.bot_log_id = NewBotLogId(txn)]
              /\ pc' = "insert_statehash_results"
         ELSE pc' = "except_batch" /\ UNCHANGED <<txn, loc>>
    /\ StateUnchanged
    /\ UNCHANGED <<now, committed, store, storage, env, sb_calls>>

\* insert_statehash_results with the rows stamped with the id of the
\* previous batch, state.batch.bot_log_id
InsertStatehashResults_PreviousId ==
    /\ pc = "insert_statehash_results"
    /\ \E ok \in BOOLEAN :
         IF ok
         THEN /\ txn' = [txn EXCEPT !.statehash_results = @ \cup
                    { [bot_log_id |-> batch.bot_log_id,
                       state_hash |-> r.state_hash,
                       parent_state_hash |-> r.parent_state_hash]
                      : r \in loc.shortlist }]
              /\ pc' = "create_point_record"
         ELSE pc' = "except_batch" /\ UNCHANGED txn
    /\ StateUnchanged
    /\ UNCHANGED <<now, loc, committed, store, storage, env, sb_calls>>

\* db.insert_statehash_results(shortlisted_state_hash_df)
InsertStatehashResults ==
    /\ pc = "insert_statehash_results"
    /\ \E ok \in BOOLEAN :
         IF ok
         THEN /\ txn' = [txn EXCEPT !.statehash_results = @ \cup
                    { [bot_log_id |-> loc.bot_log_id,
                       state_hash |-> r.state_hash,
                       parent_state_hash |-> r.parent_state_hash]
                      : r \in loc.shortlist }]
              /\ pc' = "create_point_record"
         ELSE pc' = "except_batch" /\ UNCHANGED txn
    /\ StateUnchanged
    /\ UNCHANGED <<now, loc, committed, store, storage, env, sb_calls>>

\* db.create_point_record(point_record_df), called when it is not empty
CreatePointRecord ==
    /\ pc = "create_point_record"
    /\ \E ok \in (IF loc.point_record_df = {} THEN {TRUE} ELSE BOOLEAN) :
         IF ok
         THEN /\ txn' = [txn EXCEPT !.point_record = @ \cup
                    { [bot_log_id |-> loc.bot_log_id,
                       block_producer_key |-> s.submitter,
                       state_hash |-> s.state_hash,
                       amount |-> 1]
                      : s \in loc.point_record_df }]
              /\ pc' = "commit"
         ELSE pc' = "except_batch" /\ UNCHANGED txn
    /\ StateUnchanged
    /\ UNCHANGED <<now, loc, committed, store, storage, env, sb_calls>>

\* db.connection.commit() of the batch
Commit ==
    /\ pc = "commit"
    /\ \E ok \in BOOLEAN :
         IF ok
         THEN committed' = txn /\ pc' = "scoreboard"
         ELSE pc' = "except_batch" /\ UNCHANGED committed
    /\ StateUnchanged
    /\ UNCHANGED <<now, loc, txn, store, storage, env, sb_calls>>

\* the handler without the rollback
ExceptBatch_NoRollback ==
    /\ pc = "except_batch"
    /\ retry_batch
    /\ pc' = "main"
    /\ UNCHANGED <<now, loc, committed, txn, store, storage, env, sb_calls>>

\* except Exception: rollback, retry_batch, return
ExceptBatch ==
    /\ pc = "except_batch"
    /\ txn' = committed
    /\ retry_batch
    /\ pc' = "main"
    /\ UNCHANGED <<now, loc, committed, store, storage, env, sb_calls>>

----------------------------------------------------------------------------
(* process: the branch without verified submissions (lines 385-396) *)

\* bot_log_id = db.create_bot_log(values) with 0 submissions processed; the
\* call is outside every try block
EmptyBotLog ==
    /\ pc = "empty_bot_log"
    /\ \E ok \in BOOLEAN :
         IF ok
         THEN /\ txn' = create_bot_log(txn, 0, batch)
              /\ loc' = [loc EXCEPT !.bot_log_id = NewBotLogId(txn)]
              /\ pc' = "scoreboard"
         ELSE pc' = "crashed" /\ UNCHANGED <<txn, loc>>
    /\ StateUnchanged
    /\ UNCHANGED <<now, committed, store, storage, env, sb_calls>>

----------------------------------------------------------------------------
(* process: the scoreboard step and the advance (lines 397-410) *)

\* db.update_scoreboard(state.batch.end_time, uptime_days)
UpdateScoreboard ==
    /\ pc = "scoreboard"
    /\ sb_calls' = Append(sb_calls, batch.end_time)
    /\ \E ok \in BOOLEAN :
         IF ok
         THEN /\ txn' = [txn EXCEPT !.scoreboard = batch.end_time]
              /\ pc' = IF storage = STORAGE_CASSANDRA THEN "insert_submissions"
                       ELSE "scoreboard_commit"
         ELSE pc' = "except_scoreboard" /\ UNCHANGED txn
    /\ StateUnchanged
    /\ UNCHANGED <<now, loc, committed, store, storage, env>>

\* db.insert_submissions(all_submissions), Cassandra storage only
InsertSubmissions ==
    /\ pc = "insert_submissions"
    /\ \E ok \in BOOLEAN :
         IF ok
         THEN /\ txn' = [txn EXCEPT !.submissions = @ \cup loc.all_submissions]
              /\ pc' = "scoreboard_commit"
         ELSE pc' = "except_scoreboard" /\ UNCHANGED txn
    /\ StateUnchanged
    /\ UNCHANGED <<now, loc, committed, store, storage, env, sb_calls>>

\* else: db.connection.commit(); then state.advance_to_next_batch(bot_log_id)
ScoreboardCommit ==
    /\ pc = "scoreboard_commit"
    /\ \E ok \in BOOLEAN :
         IF ok
         THEN /\ committed' = txn
              /\ advance_to_next_batch(loc.bot_log_id)
              /\ pc' = "main"
         ELSE /\ pc' = "crashed"
              /\ StateUnchanged
              /\ UNCHANGED committed
    /\ UNCHANGED <<now, loc, txn, store, storage, env, sb_calls>>

\* except Exception: rollback; then state.advance_to_next_batch(bot_log_id)
ExceptScoreboard ==
    /\ pc = "except_scoreboard"
    /\ txn' = committed
    /\ advance_to_next_batch(loc.bot_log_id)
    /\ pc' = "main"
    /\ UNCHANGED <<now, loc, committed, store, storage, env, sb_calls>>

----------------------------------------------------------------------------
Next ==
    \/ Main
    \/ ApplicationStatus
    \/ Wait
    \/ Dispatch
    \/ Load
    \/ CreateStatehash
    \/ CreateNodeRecord
    \/ Select
    \/ CreateBotLog
    \/ InsertStatehashResults
    \/ CreatePointRecord
    \/ Commit
    \/ ExceptBatch
    \/ EmptyBotLog
    \/ UpdateScoreboard
    \/ InsertSubmissions
    \/ ScoreboardCommit
    \/ ExceptScoreboard

Spec == Init /\ [][Next]_vars

\* the coordinator on a database that already holds state hashes
SpecStored == InitStored /\ [][Next]_vars

----------------------------------------------------------------------------
(* Properties *)

Windows == 0 .. MaxBatches - 1

\* the verified submissions of window w
VerifiedIn(w) == Verified(Submissions(w, store[w]))

\* the bot_log rows of db written for window w
RowsFor(db, w) ==
    { i \in DOMAIN db.bot_logs :
        db.bot_logs[i].batch_end_epoch
            = Timestamp((w + 1) * SURVEY_INTERVAL_MINUTES)
        /\ db.bot_logs[i].files_processed >= 0 }

\* the bot_log rows of db written by process_statehash_df for window w
BatchRowsFor(db, w) ==
    { i \in RowsFor(db, w) : db.bot_logs[i].files_processed > 0 }

\* the positions of process() inside the try block of lines 375-379
PersistPcs ==
    {"create_statehash", "create_node_record", "select", "create_bot_log",
     "insert_statehash_results", "create_point_record", "commit"}

\* what process_statehash_df computes for window w, given the rows committed
\* for the window before it (none when that window left no row)
ExpectedFor(w) ==
    LET prev == IF w = 0 THEN {} ELSE RowsFor(committed, w - 1)
        pid == IF prev = {} THEN 0
               ELSE committed.bot_logs[CHOOSE i \in prev : TRUE].id
    IN ChainSelection(committed, [bot_log_id |-> pid], VerifiedIn(w))

C1_AllPresent(w) ==
    /\ Cardinality(BatchRowsFor(committed, w)) = 1
    /\ LET row == committed.bot_logs[CHOOSE i \in BatchRowsFor(committed, w) : TRUE]
           exp == ExpectedFor(w)
           verified == VerifiedIn(w)
       IN /\ row.files_processed = Cardinality(verified)
          /\ BatchHashes(verified) \subseteq committed.statehash
          /\ BatchNodes(verified) \subseteq committed.nodes
          /\ { [state_hash |-> r.state_hash,
                parent_state_hash |-> r.parent_state_hash]
               : r \in { x \in committed.statehash_results :
                           x.bot_log_id = row.id } } = exp.shortlist
          /\ { [submitter |-> r.block_producer_key, state_hash |-> r.state_hash]
               : r \in { x \in committed.point_record : x.bot_log_id = row.id } }
             = { [submitter |-> s.submitter, state_hash |-> s.state_hash]
                 : s \in exp.point_record_df }

C1_NonePresent(w) ==
    LET verified == VerifiedIn(w)
        own == { s.state_hash : s \in verified }
        others == { x \in Windows \ {w} : BatchRowsFor(committed, x) # {} }
        hashes == BatchHashes(verified) \cap committed.statehash
        nodes == BatchNodes(verified) \cap committed.nodes
    IN /\ BatchRowsFor(committed, w) = {}
       /\ hashes = {} \/
             hashes \subseteq UNION { BatchHashes(VerifiedIn(v)) : v \in others }
       /\ nodes = {} \/
             nodes \subseteq UNION { BatchNodes(VerifiedIn(v)) : v \in others }
       /\ \A r \in committed.statehash_results : r.state_hash \notin own
       /\ \A r \in committed.point_record : r.state_hash \notin own

\* C1: for every window with verified submissions the committed database
\* holds either all of the writes of process_statehash_df for it (its one
\* bot_log row, its state hashes, its nodes, exactly its statehash_results
\* and point_record rows) or none of them, in every reachable state, also
\* after a failure at any step of process_statehash_df.
C1_BatchWritesAtomic ==
    \A w \in Windows :
        VerifiedIn(w) # {} => (C1_AllPresent(w) \/ C1_NonePresent(w))

\* a step of process_statehash_df after create_bot_log has raised: the
\* connection holds uncommitted state hashes and an uncommitted bot_log row
C1_Witness ==
    /\ pc = "except_batch"
    /\ Len(txn.bot_logs) > Len(committed.bot_logs)
    /\ txn.statehash # committed.statehash
    /\ txn.nodes # committed.nodes

\* C2: an exception during batch persistence is handled by rollback and
\* retry_batch: the window stays the same, the loop starts over, no
\* update_scoreboard call is made for the window in that iteration, and
\* retrials_left goes from 3 to 2.
C2_FailureRetriesSameWindow ==
    /\ [][(pc \in PersistPcs) =>
            (/\ pc' \in PersistPcs \cup {"except_batch", "scoreboard"}
             /\ batch' = batch
             /\ sb_calls' = sb_calls)]_vars
    /\ [][pc = "except_batch" =>
            (/\ txn' = committed
             /\ committed' = committed
             /\ batch' = batch
             /\ sb_calls' = sb_calls
             /\ pc' = "main"
             /\ (retrials_left = 3 => retrials_left' = 2 /\ ~stop'))]_vars
    /\ [](pc \in PersistPcs \cup {"except_batch"} =>
            \A i \in DOMAIN sb_calls : sb_calls[i] # batch.end_time)

\* the loop is back at its head after the first failure of a window
C2_Witness ==
    /\ pc = "main"
    /\ attempts = 1
    /\ retrials_left = 2
    /\ loop_count = 1
    /\ txn = committed
    /\ ~stop

\* C3: retrials_left stays within 0..RETRY_COUNT, is RETRY_COUNT at the first
\* attempt of every window, goes down by one per failed attempt while it is
\* positive, and a failed attempt at 0 sets stop; a window is executed at
\* most RETRY_COUNT + 1 times.
C3_RetriesBounded ==
    /\ [](retrials_left \in 0 .. RETRY_COUNT)
    /\ [](attempts <= RETRY_COUNT + 1)
    /\ [](attempts = 0 \/ (attempts = 1 /\ pc # "main") =>
             retrials_left = RETRY_COUNT)
    /\ [](~stop /\ attempts >= 1 =>
             retrials_left = RETRY_COUNT - (attempts - 1)
             \/ (pc = "main" /\ retrials_left = RETRY_COUNT - attempts))
    /\ [][batch' # batch => retrials_left' = RETRY_COUNT]_vars
    /\ [][pc = "except_batch" /\ retrials_left > 0 =>
            (retrials_left' = retrials_left - 1 /\ stop' = stop)]_vars
    /\ [][pc = "except_batch" /\ retrials_left = 0 =>
            (stop' /\ retrials_left' = 0)]_vars
    /\ [][stop' # stop => (pc = "except_batch" /\ retrials_left = 0)]_vars

\* the second window fails for the last time although the first one used up
\* retries of its own
C3_Witness ==
    /\ stop
    /\ advances >= 1
    /\ attempts = RETRY_COUNT + 1
    /\ loop_count > RETRY_COUNT + 2

\* C4: the windows are contiguous and of fixed width: the window after k
\* advances is [k * interval, (k + 1) * interval) counted from the start of
\* the initial batch, an advance moves the window by exactly one interval and
\* installs the new bot_log id, and a retry leaves the window as it is.
C4_WindowsContiguous ==
    /\ [](/\ batch.start_time = advances * SURVEY_INTERVAL_MINUTES
          /\ batch.end_time = (advances + 1) * SURVEY_INTERVAL_MINUTES)
    /\ [][advances' # advances =>
            (/\ batch'.start_time = batch.end_time
             /\ batch'.end_time = batch.end_time + SURVEY_INTERVAL_MINUTES
             /\ batch'.bot_log_id = loc.bot_log_id)]_vars
    /\ [][pc = "except_batch" => batch' = batch]_vars
    /\ [][batch' # batch => advances' = advances + 1]_vars

\* two advances have happened, with a retry in between
C4_Witness ==
    /\ advances = 2
    /\ loop_count > 2

\* the bot_log row at position i of db
Row(db, i) == db.bot_logs[i]

\* C5: the committed bot_log rows describe contiguous windows: the end of
\* each row is the start of the row after it, and no row starts before an
\* earlier row ends.
C5_BotLogsContiguous ==
    \A i, j \in DOMAIN committed.bot_logs :
        /\ (j = i + 1 =>
              Row(committed, i).batch_end_epoch = Row(committed, j).batch_start_epoch)
        /\ (i < j =>
              Row(committed, i).batch_end_epoch <= Row(committed, j).batch_start_epoch)

\* C6: the batch_end_epoch of the committed bot_log rows is strictly
\* increasing, so no window has two committed rows, and when the loop is at
\* its head the connection holds no bot_log row left over from a rolled-back
\* attempt.
C6_BotLogEndsIncrease ==
    /\ \A i, j \in DOMAIN committed.bot_logs :
          i < j => Row(committed, i).batch_end_epoch < Row(committed, j).batch_end_epoch
    /\ \A w \in Windows : Cardinality(RowsFor(committed, w)) <= 1
    /\ (pc = "main" => txn.bot_logs = committed.bot_logs)

\* a window committed on its second or later attempt, after an attempt that
\* had been rolled back
C6_Witness ==
    /\ pc = "scoreboard"
    /\ attempts >= 2
    /\ BatchRowsFor(committed, WindowOf(batch.start_time)) # {}

\* C7: a failure of the scoreboard step is isolated: the rollback leaves the
\* bot_log row of the iteration's batch committed, and the coordinator
\* advances with retrials_left reset and stop unchanged.
C7_ScoreboardFailureIsolated ==
    [][pc = "except_scoreboard" =>
         (/\ \E i \in RowsFor(committed', WindowOf(batch.start_time)) :
                  Row(committed', i).id = loc.bot_log_id
          /\ txn'.bot_logs = txn.bot_logs
          /\ batch' = BatchNext(batch, loc.bot_log_id)
          /\ retrials_left' = RETRY_COUNT
          /\ stop' = stop)]_vars

\* C8: when an iteration that loaded no verified submission has finished,
\* exactly one bot_log row with files_processed = 0 is committed for its
\* window, no statehash_results and no point_record row carries its id,
\* update_scoreboard was called for the window and the window was advanced,
\* whether or not the scoreboard update succeeded.
C8_EmptyWindowCompleted ==
    [][(/\ pc \in {"scoreboard_commit", "except_scoreboard"}
        /\ loc.state_hash_df = {}
        /\ pc' = "main") =>
         (/\ Cardinality(RowsFor(committed', WindowOf(batch.start_time))) = 1
          /\ \A i \in RowsFor(committed', WindowOf(batch.start_time)) :
                 /\ Row(committed', i).files_processed = 0
                 /\ Row(committed', i).id = loc.bot_log_id
          /\ \A r \in committed'.statehash_results : r.bot_log_id # loc.bot_log_id
          /\ \A r \in committed'.point_record : r.bot_log_id # loc.bot_log_id
          /\ \E k \in DOMAIN sb_calls : sb_calls[k] = batch.end_time
          /\ batch' = BatchNext(batch, loc.bot_log_id))]_vars

\* C9: after a failed read of the submissions the iteration writes no
\* bot_log row for the window and ends in retry_batch with the window
\* unchanged.
C9_ReadErrorRetries ==
    [][(loc.read_error /\ pc # "main") =>
         (/\ RowsFor(txn', WindowOf(batch.start_time)) = {}
          /\ (pc' = "main" =>
                 /\ batch' = batch
                 /\ loop_count' = loop_count + 1
                 /\ txn' = committed))]_vars

\* C10: an exception of a ResultDB operation that persists a batch, with or
\* without submissions, is handled by rollback and retry_batch and does not
\* leave process(); the main loop ends only with stop = true.
C10_PersistenceErrorsCaught ==
    /\ [][(pc \in PersistPcs \cup {"empty_bot_log"}) =>
            (/\ pc' # "crashed"
             /\ pc' \in PersistPcs \cup {"scoreboard", "except_batch"})]_vars
    /\ [](pc = "exit" => stop)

----------------------------------------------------------------------------
\* C11: state.stop turns true only in retry_batch, at retrials_left = 0, and
\* never turns false again; once it is true the loop of main is left at its
\* next test, and nothing waits, dispatches, writes to the database or
\* changes the window any more.
C11_StoppedIsTerminal ==
    [][ /\ (stop' # stop) =>
             (pc = "except_batch" /\ retrials_left = 0 /\ stop')
        /\ stop => (/\ stop'
                    /\ pc = "main"
                    /\ pc' = "exit"
                    /\ UNCHANGED <<batch, current_timestamp, retrials_left,
                                   loop_count, now, committed, txn, sb_calls,
                                   attempts, advances, warned>>)
        /\ (~stop /\ stop') => (pc' = "main" /\ batch' = batch) ]_vars

\* the loop has been left with the stop flag set
C11_Witness ==
    stop /\ pc = "exit" /\ retrials_left = 0 /\ attempts = RETRY_COUNT + 1

----------------------------------------------------------------------------
\* what the store holds over all windows
AllSubmissions == UNION { Submissions(w, store[w]) : w \in Windows }

\* a submission the validators accepted: verified, validation_error null or ""
Accepted(s) == s.verified /\ s.validation_error \in {None, ""}

\* the positions of process() at which the loaded master_df is that of the
\* current window
LoadedPcs ==
    {"create_statehash", "create_node_record", "select", "create_bot_log",
     "insert_statehash_results", "create_point_record", "commit",
     "except_batch", "empty_bot_log", "scoreboard", "insert_submissions",
     "scoreboard_commit", "except_scoreboard"}

----------------------------------------------------------------------------
\* C13: every committed point_record has a committed statehash_results row
\* with the same bot_log_id and state_hash, although the point records are
\* selected before the shortlist is pruned to the batch.
C13_PointsHaveResults ==
    \A r \in committed.point_record :
        \E q \in committed.statehash_results :
            q.bot_log_id = r.bot_log_id /\ q.state_hash = r.state_hash

\* points were committed for a batch whose shortlist started from the
\* canonical block of the batch before it
C13_Witness ==
    /\ \E r \in committed.point_record : r.state_hash >= 20
    /\ \E q \in committed.statehash_results : q.state_hash = 10

\* C14: the state_hash of every committed statehash_results row is the
\* state_hash of a verified submission of the batch of its bot_log row; a
\* hash shortlisted only as the previous canonical block or as a parent is
\* not stored.
C14_ResultsAreBatchHashes ==
    \A r \in committed.statehash_results :
        \E w \in Windows :
            /\ \E i \in BatchRowsFor(committed, w) :
                  committed.bot_logs[i].id = r.bot_log_id
            /\ \E s \in VerifiedIn(w) : s.state_hash = r.state_hash

\* the second window stored a block whose parent is the canonical block of
\* the first window
C14_Witness ==
    \E r \in committed.statehash_results :
        r.bot_log_id = 3 /\ r.parent_state_hash = 10

\* the (bot_log_id, state_hash) pairs of the result rows of db
ResultKeys(db) ==
    { <<r.bot_log_id, r.state_hash>> : r \in db.statehash_results }
        \cup { <<r.bot_log_id, r.state_hash>> : r \in db.point_record }

ShortlistFor(w) ==
    LET before == IF w = 0 THEN {} ELSE RowsFor(committed, w - 1)
        pid == IF before = {} THEN 0
               ELSE committed.bot_logs[CHOOSE i \in before : TRUE].id
        prev == get_previous_statehash(committed, pid)
    IN bfs(create_graph(VerifiedIn(w), prev.relations),
           prev.selected \cup filter_state_hash_percentage(VerifiedIn(w)))

\* the committed point records of bot_log id that belong to submission s
PointsOf(id, s) ==
    { r \in committed.point_record :
        /\ r.bot_log_id = id
        /\ r.block_producer_key = s.submitter
        /\ r.state_hash = s.state_hash }

\* C16: the point records of a committed batch are exactly its verified
\* submissions whose state_hash is in the BFS shortlist: each of them has one
\* point record with amount = 1, and a verified submission outside the
\* shortlist has none.
C16_PointsAreShortlisted ==
    \A w \in Windows : \A i \in BatchRowsFor(committed, w) :
        LET id == committed.bot_logs[i].id
            shortlist == ShortlistFor(w)
            verified == VerifiedIn(w)
        IN /\ \A s \in verified :
                 Cardinality(PointsOf(id, s))
                     = IF s.state_hash \in shortlist THEN 1 ELSE 0
           /\ \A r \in committed.point_record :
                 r.bot_log_id = id =>
                     /\ r.amount = 1
                     /\ \E s \in verified : r \in PointsOf(id, s)

\* a committed batch in which one verified submission earned a point and
\* another, on a block outside the shortlist, earned none
C16_Witness ==
    \E w \in Windows : \E i \in BatchRowsFor(committed, w) :
        /\ \E s \in VerifiedIn(w) : PointsOf(committed.bot_logs[i].id, s) # {}
        /\ \E s \in VerifiedIn(w) :
              /\ s.state_hash \notin ShortlistFor(w)
              /\ PointsOf(committed.bot_logs[i].id, s) = {}

----------------------------------------------------------------------------
\* C17: state hashes are inserted only if absent: the set handed to
\* create_statehash is disjoint from the stored hashes and holds every
\* state_hash and parent_state_hash of the batch that is not stored yet, so
\* the table gains one row per new hash and none twice; create_statehash is
\* not called when the batch brings nothing new; no other step adds a hash.
C17_StatehashInsertIfAbsent ==
    [][ /\ (pc = "create_statehash" /\ pc' = "create_node_record") =>
             LET arg == loc'.state_hash_to_insert
                 seen == BatchHashes(loc.state_hash_df)
             IN /\ arg \cap txn.statehash = {}
                /\ arg \subseteq seen
                /\ \A h \in seen : h \in txn.statehash \/ h \in arg
                /\ txn'.statehash = txn.statehash \cup arg
                /\ Cardinality(txn'.statehash)
                       = Cardinality(txn.statehash) + Cardinality(arg)
                /\ loc'.create_statehash_called <=> (arg # {})
        /\ (txn'.statehash # txn.statehash) =>
             (\/ pc = "create_statehash" /\ loc'.create_statehash_called
              \/ txn' = committed) ]_vars

\* a second batch brought hashes of which one was stored already, after a
\* first batch was committed whose hashes were all stored before
C17_Witness ==
    /\ pc = "create_node_record"
    /\ loc.create_statehash_called
    /\ loc.state_hash_to_insert # BatchHashes(loc.state_hash_df)
    /\ BatchRowsFor(committed, 0) # {}
    /\ committed.statehash = StoredBefore

----------------------------------------------------------------------------
(* The Cassandra store: shards, dates and the query of get_submissions.
   Times are whole seconds counted from midnight of day 0. *)

MaxShardSpan == 150
MaxSplitSpan == 40
MaxParts == 3

\* start times next to shard boundaries and next to midnight
ShardStarts == {0, 100, 143, 144, 86255, 86399}
SplitStarts == {130, 86390}

\* datetime.hour, .minute, .second and .date()
Hour(t) == (t % 86400) \div 3600
Minute(t) == (t % 3600) \div 60
Second(t) == t % 60
Date(t) == t \div 86400

\* ShardCalculator.calculate_shard
calculate_shard(hour, minute, second) ==
    (3600 * hour + 60 * minute + second) \div 144

\* the shard of the second current_time points at
ShardOfTime(t) == calculate_shard(Hour(t), Minute(t), Second(t))

\* the while loop of calculate_shards_in_range
RECURSIVE ShardLoop(_, _, _)
ShardLoop(current_time, end_time, shards) ==
    IF current_time < end_time
    THEN ShardLoop(current_time + 1, end_time,
                   shards \cup {ShardOfTime(current_time)})
    ELSE shards

\* calculate_shards_in_range after the loop, without the test of the end
\* boundary
EndBoundary_Never(shards, end_time) == shards

\* calculate_shards_in_range after the loop: the shard of end_time is added
\* if end_time is on a shard boundary
EndBoundary(shards, end_time) ==
    LET end_shard == ShardOfTime(end_time)
        total_seconds_end ==
            Hour(end_time) * 3600 + Minute(end_time) * 60 + Second(end_time)
    IN IF end_shard \notin shards /\ total_seconds_end % 144 = 0
       THEN shards \cup {end_shard}
       ELSE shards

\* ShardCalculator.calculate_shards_in_range: the set behind "shard in (...)"
calculate_shards_in_range(start_time, end_time) ==
    EndBoundary(ShardLoop(start_time, end_time, {}), end_time)

\* get_submitted_at_date_list: the dates from that of start to that of end
get_submitted_at_date_list(start_date, end_date) ==
    Date(start_date) .. Date(end_date)

\* the partition columns of a stored submission with submitted_at = t
RowDate(t) == Date(t)
RowShard(t) == ShardOfTime(t)

\* AWSKeyspacesClient.get_submissions: the rows that satisfy the conditions
\* of the query
get_submissions(rows, submitted_at_start, submitted_at_end, start_inclusive, end_inclusive) ==
    { t \in rows :
        /\ RowDate(t) \in get_submitted_at_date_list(submitted_at_start,
                                                     submitted_at_end)
        /\ RowShard(t) \in calculate_shards_in_range(submitted_at_start,
                                                     submitted_at_end)
        /\ IF start_inclusive THEN t >= submitted_at_start
                              ELSE t > submitted_at_start
        /\ IF end_inclusive THEN t <= submitted_at_end
                            ELSE t < submitted_at_end }

\* Batch.split: parts_number intervals of equal whole-second length, the
\* last one ending at end_time
split(start_time, end_time, parts_number) ==
    LET diff == (end_time - start_time) \div parts_number
    IN [i \in 1 .. parts_number |->
           <<start_time + diff * (i - 1),
             IF i = parts_number THEN end_time ELSE start_time + diff * i>>]

\* the coordinator variables that the functions above do not touch
Untouched ==
    <<batch, current_timestamp, retrials_left, loop_count, stop, now,
      committed, txn, store, storage, env, sb_calls, attempts, advances, warned>>

InitUntouched ==
    /\ committed = [EmptyTables EXCEPT !.bot_logs = <<SeedRow>>]
    /\ txn = committed
    /\ batch = get_batch_timings(committed, SURVEY_INTERVAL_MINUTES)
    /\ now = StartMinute
    /\ current_timestamp = now
    /\ retrials_left = RETRY_COUNT
    /\ loop_count = 0
    /\ stop = FALSE
    /\ store = [w \in 0 .. MaxBatches - 1 |-> "empty"]
    /\ storage = STORAGE_CASSANDRA
    /\ sb_calls = <<>>
    /\ attempts = 0
    /\ advances = 0
    /\ env = DeployedEnv
    /\ warned = FALSE

\* a call of calculate_shards_in_range on a window of 1 .. MaxShardSpan
\* seconds
InitShards ==
    /\ InitUntouched
    /\ pc = "shards_loop"
    /\ loc \in { [start_time |-> s, end_time |-> s + n, current_time |-> s,
                  shards |-> {}]
                 : s \in ShardStarts, n \in 1 .. MaxShardSpan }

\* one pass of the while loop of calculate_shards_in_range
ShardsLoop ==
    /\ pc = "shards_loop"
    /\ loc.current_time < loc.end_time
    /\ loc' = [loc EXCEPT !.shards = @ \cup {ShardOfTime(loc.current_time)},
                          !.current_time = @ + 1]
    /\ pc' = "shards_loop"
    /\ UNCHANGED Untouched

\* calculate_shards_in_range from the end of the loop to the return
ShardsEnd ==
    /\ pc = "shards_loop"
    /\ ~(loc.current_time < loc.end_time)
    /\ loc' = [loc EXCEPT !.shards = EndBoundary(@, loc.end_time)]
    /\ pc' = "shards_done"
    /\ UNCHANGED Untouched

NextShards == ShardsLoop \/ ShardsEnd

SpecShards == InitShards /\ [][NextShards]_vars

\* the submissions in the store: one for every second from two seconds before
\* the window to two seconds after it
StoredAround(start_time, end_time) == (start_time - 2) .. (end_time + 2)

\* a window of 1 .. MaxSplitSpan seconds to be read in 1 .. MaxParts
\* mini-batches
InitSplit ==
    /\ InitUntouched
    /\ pc = "split"
    /\ loc \in { [start_time |-> s, end_time |-> s + n, parts_number |-> k,
                  time_intervals |-> <<>>,
                  submissions |-> [t \in StoredAround(s, s + n) |-> 0]]
                 : s \in SplitStarts, n \in 1 .. MaxSplitSpan,
                   k \in 1 .. MaxParts }

\* process: time_intervals = list(state.batch.split(Config.MINI_BATCH_NUMBER))
Split ==
    /\ pc = "split"
    /\ loc' = [loc EXCEPT !.time_intervals =
                   split(loc.start_time, loc.end_time, loc.parts_number)]
    /\ pc' = "read"
    /\ UNCHANGED Untouched

\* the number of times each stored submission is in the list that the loop
\* of load_submissions builds with submissions.extend
Extended(time_intervals, rows, start_inclusive, end_inclusive) ==
    [t \in rows |->
        Cardinality({ i \in DOMAIN time_intervals :
            t \in get_submissions(rows, time_intervals[i][1],
                                  time_intervals[i][2],
                                  start_inclusive, end_inclusive) })]

\* the loop of load_submissions reading each interval up to and including
\* its end
ReadIntervals_EndInclusive ==
    /\ pc = "read"
    /\ loc' = [loc EXCEPT !.submissions =
                   Extended(loc.time_intervals,
                            StoredAround(loc.start_time, loc.end_time),
                            TRUE, TRUE)]
    /\ pc' = "read_done"
    /\ UNCHANGED Untouched

\* load_submissions, Cassandra store: the loop over time_intervals with
\* start_inclusive=True, end_inclusive=False
ReadIntervals ==
    /\ pc = "read"
    /\ loc' = [loc EXCEPT !.submissions =
                   Extended(loc.time_intervals,
                            StoredAround(loc.start_time, loc.end_time),
                            TRUE, FALSE)]
    /\ pc' = "read_done"
    /\ UNCHANGED Untouched

NextSplit == Split \/ ReadIntervals

SpecSplit == InitSplit /\ [][NextSplit]_vars

----------------------------------------------------------------------------
\* C18: for start < end, calculate_shards_in_range returns exactly the shards
\* of the seconds in [start, end), plus the shard of end when end's second of
\* the day is a multiple of 144; the shard of every second of the window is
\* in it, also for windows shorter than 144 s and windows crossing midnight;
\* for [00:02:24, 00:04:48) the set is {1, 2}.
C18_ShardsOfWindow ==
    (pc = "shards_done") =>
        LET start == loc.start_time
            end == loc.end_time
            end_second == end % 86400
        IN /\ loc.shards
                = { (t % 86400) \div 144 : t \in start .. end - 1 }
                    \cup (IF end_second % 144 = 0
                          THEN {end_second \div 144} ELSE {})
           /\ \A t \in start .. end - 1 : RowShard(t) \in loc.shards
           /\ (start = 144 /\ end = 288) => loc.shards = {1, 2}

\* the shards of [00:02:24, 00:04:48) have been computed
C18_Witness ==
    /\ pc = "shards_done"
    /\ loc.start_time = 144
    /\ loc.end_time = 288
    /\ loc.shards = {1, 2}

\* C19: the split of [start, end) into the mini-batch intervals is an exact
\* partition (the first starts at start, each next one starts where the one
\* before ends, the last ends at end and takes the remainder of the whole
\* second division), and read start-inclusive and end-exclusive every
\* submission with submitted_at in [start, end) is loaded exactly once and
\* no submission outside the window is loaded.
C19_SplitLoadsEachOnce ==
    /\ (pc \in {"read", "read_done"}) =>
          LET iv == loc.time_intervals
              n == loc.parts_number
              diff == (loc.end_time - loc.start_time) \div n
          IN /\ Len(iv) = n
             /\ iv[1][1] = loc.start_time
             /\ iv[n][2] = loc.end_time
             /\ \A i \in 1 .. n - 1 :
                   iv[i + 1][1] = iv[i][2] /\ iv[i][2] - iv[i][1] = diff
             /\ iv[n][2] - iv[n][1]
                   = diff + ((loc.end_time - loc.start_time) % n)
    /\ (pc = "read_done") =>
          \A t \in DOMAIN loc.submissions :
              loc.submissions[t]
                  = IF loc.start_time <= t /\ t < loc.end_time THEN 1 ELSE 0

\* a window across midnight whose length is not a multiple of the number of
\* mini-batches has been read
C19_Witness ==
    /\ pc = "read_done"
    /\ loc.parts_number = 3
    /\ Date(loc.start_time) # Date(loc.end_time)
    /\ (loc.end_time - loc.start_time) % 3 = 2
    /\ \E t \in DOMAIN loc.submissions : loc.submissions[t] = 1

----------------------------------------------------------------------------
\* update_scoreboard has run once, with the window's end_time, for each
\* window advanced past and for the window of an iteration that is past the
\* call, and for no other
C20_OncePerWindow ==
    /\ \A i \in 1 .. Len(sb_calls) : sb_calls[i] = i * SURVEY_INTERVAL_MINUTES
    /\ Len(sb_calls) \in {advances, advances + 1}
    /\ (Len(sb_calls) = advances + 1) <=>
          (\/ pc \in {"insert_submissions", "scoreboard_commit",
                      "except_scoreboard"}
           \/ pc = "crashed" /\ txn.scoreboard = batch.end_time)

\* C20: update_scoreboard runs exactly once for every window the coordinator
\* advances past, with as_of = the window's end_time, and never in an
\* iteration that ends in retry_batch; when it is invoked the bot_log row of
\* the window is already committed.
C20_ScoreboardAfterCommit ==
    /\ C20_OncePerWindow
    /\ (pc = "scoreboard") =>
          RowsFor(committed, WindowOf(batch.start_time)) # {}

----------------------------------------------------------------------------
(* tasks.init_database: seeding the bot_logs table *)

MaxInitRuns == 4

\* the batch_end_epoch the task arrives at, from --mins-ago, from the
\* --batch-end-epoch argument or from the clock
InitEpochs == {Timestamp(0), Timestamp(SURVEY_INTERVAL_MINUTES)}

\* init_database inserting the seed row whatever the table holds
init_database_AlwaysInserts(bot_logs, batch_end_epoch, override_empty) ==
    Append(bot_logs,
           [id |-> NewBotLogId([bot_logs |-> bot_logs]),
            processing_time |-> 0,
            files_processed |-> -1,
            file_timestamps |-> FromTimestamp(batch_end_epoch),
            batch_start_epoch |-> batch_end_epoch,
            batch_end_epoch |-> batch_end_epoch])

\* init_database from the test of the table to the commit
init_database(bot_logs, batch_end_epoch, override_empty) ==
    LET count == Len(bot_logs)
        should_insert == IF ~override_empty THEN count = 0 ELSE TRUE
    IN IF should_insert
       THEN Append(bot_logs,
                   [id |-> NewBotLogId([bot_logs |-> bot_logs]),
                    processing_time |-> 0,
                    files_processed |-> -1,
                    file_timestamps |-> FromTimestamp(batch_end_epoch),
                    batch_start_epoch |-> batch_end_epoch,
                    batch_end_epoch |-> batch_end_epoch])
       ELSE bot_logs

\* the task is about to run on a table that is empty or holds the rows of a
\* coordinator that completed one window
InitTasks ==
    /\ InitUntouched
    /\ pc = "init_database"
    /\ loc \in { [bot_logs |-> t, override_empty |-> FALSE,
                  batch_end_epoch |-> 0, runs |-> 0]
                 : t \in { <<>>,
                           create_bot_log(committed, 0, batch).bot_logs } }

\* one run of `invoke init-database`
InitDatabase ==
    /\ pc = "init_database"
    /\ loc.runs < MaxInitRuns
    /\ \E override_empty \in BOOLEAN, batch_end_epoch \in InitEpochs :
         loc' = [bot_logs |-> init_database(loc.bot_logs, batch_end_epoch,
                                            override_empty),
                 override_empty |-> override_empty,
                 batch_end_epoch |-> batch_end_epoch,
                 runs |-> loc.runs + 1]
    /\ pc' = "init_database"
    /\ UNCHANGED Untouched

NextTasks == InitDatabase

SpecTasks == InitTasks /\ [][NextTasks]_vars

\* C21: init_database without override_empty on a non-empty bot_logs table
\* inserts no row and changes no row, however often it runs; on an empty
\* table, or with override_empty, it appends exactly one seed row with
\* files_processed = -1, processing_time = 0 and batch_start_epoch =
\* batch_end_epoch, and leaves the rows before it as they were.
C21_InitDatabaseIdempotent ==
    [][(pc = "init_database") =>
         LET old == loc.bot_logs
             new == loc'.bot_logs
         IN IF ~loc'.override_empty /\ Len(old) > 0
            THEN new = old
            ELSE /\ Len(new) = Len(old) + 1
                 /\ SubSeq(new, 1, Len(old)) = old
                 /\ new[Len(new)].files_processed = -1
                 /\ new[Len(new)].processing_time = 0
                 /\ new[Len(new)].batch_end_epoch = loc'.batch_end_epoch
                 /\ new[Len(new)].batch_start_epoch
                        = new[Len(new)].batch_end_epoch ]_vars

\* the task has run MaxInitRuns times, the last time without override_empty,
\* and the table holds the one seed row of its first run
C21_Witness ==
    /\ loc.runs = MaxInitRuns
    /\ ~loc.override_empty
    /\ Len(loc.bot_logs) = 1
    /\ loc.bot_logs[1].files_processed = -1
    /\ loc.bot_logs[1].processing_time = 0

----------------------------------------------------------------------------
(* main from its first line: the configuration the environment gives *)

\* a value of SUBMISSION_STORAGE that is not a storage option
STORAGE_UNKNOWN == "unknown"

\* environments: the deployed one, one with the application status update
\* switched on, and three that assume a role: with the token file and the
\* session name, without the token file, without the session name
Envs ==
    { DeployedEnv,
      Env(TRUE, FALSE, FALSE, FALSE, FALSE),
      Env(FALSE, TRUE, TRUE, TRUE, TRUE),
      Env(FALSE, TRUE, FALSE, TRUE, TRUE),
      Env(FALSE, TRUE, TRUE, FALSE, TRUE) }

\* the process at the first line of main, with any storage option and any of
\* the environments; batch and the state hold what get_batch_timings and
\* State() will give them
InitConfig ==
    /\ committed = [EmptyTables EXCEPT !.bot_logs = <<SeedRow>>]
    /\ txn = committed
    /\ batch = get_batch_timings(committed, SURVEY_INTERVAL_MINUTES)
    /\ now = StartMinute
    /\ current_timestamp = now
    /\ retrials_left = RETRY_COUNT
    /\ loop_count = 0
    /\ stop = FALSE
    /\ pc = "startup"
    /\ loc = NoLocals
    /\ \E k \in Kinds : store = [w \in 0 .. MaxBatches - 1 |-> k]
    /\ storage \in VALID_STORAGE_OPTIONS \cup {STORAGE_UNKNOWN}
    /\ sb_calls = <<>>
    /\ attempts = 0
    /\ advances = 0
    /\ env \in Envs
    /\ warned = FALSE

\* main: the test of SUBMISSION_STORAGE, the connection, get_batch_timings
\* and State(batch)
Startup ==
    /\ pc = "startup"
    /\ pc' = IF storage \notin VALID_STORAGE_OPTIONS THEN "crashed" ELSE "main"
    /\ UNCHANGED <<batch, current_timestamp, retrials_left, loop_count, stop,
                   now, loc, committed, txn, store, storage, env, sb_calls,
                   attempts, advances, warned>>

NextConfig == Startup \/ Next

SpecConfig == InitConfig /\ [][NextConfig]_vars

\* the environment holds a configuration error: an unknown storage option,
\* or Cassandra storage with a role to assume and no token file or no
\* session name
ConfigurationError ==
    \/ storage \notin VALID_STORAGE_OPTIONS
    \/ (storage = STORAGE_CASSANDRA /\ ~AWSKeyspacesClient(env))

\* C22: a configuration error is fatal before the loop: with an unknown
\* SUBMISSION_STORAGE, or with Cassandra storage, a role ARN and no token
\* file or no session name, the process is at startup or has stopped there;
\* no iteration has started, nothing has waited and no worker was dispatched.
C22_ConfigErrorFatalAtStartup ==
    ConfigurationError =>
        \/ pc = "startup"
        \/ (pc = "crashed" /\ attempts = 0 /\ now = StartMinute
                            /\ loc.duration = 0 /\ txn = committed)

----------------------------------------------------------------------------
(* The clock: overrun, wait and warning *)

\* the step is a call of advance_to_next_batch
Advanced == advances' = advances + 1

\* the dispatch of the iteration took longer than a window
Overran == loc.duration > SURVEY_INTERVAL_MINUTES

\* C23: scheduler overrun: when the dispatch took longer than
\* SURVEY_INTERVAL_MINUTES, the advance leaves a window that has ended at the
\* refreshed current_timestamp; nothing changes the window or the timestamp
\* before the next wait, and a wait on a window that has ended at
\* current_timestamp goes on to the dispatch without sleeping.
C23_OverrunProceedsImmediately ==
    [][ /\ (Advanced /\ Overran) =>
             /\ batch'.start_time < now'
             /\ batch'.end_time <= current_timestamp'
             /\ current_timestamp' = now'
             /\ pc' = "main"
        /\ (pc \in {"main", "status"}) =>
             UNCHANGED <<batch, current_timestamp>>
        /\ (pc = "wait" /\ batch.end_time <= current_timestamp) =>
             (now' = now /\ pc' = "dispatch") ]_vars

\* the advance after a dispatch that took longer than a window has acted:
\* the clock is inside the new window or less than a window past its end,
\* and the window has ended at current_timestamp, so that the wait of the
\* iteration that starts here does not sleep
C23_Witness ==
    /\ pc = "main"
    /\ advances = 1
    /\ attempts = 0
    /\ loc.duration > SURVEY_INTERVAL_MINUTES
    /\ batch.start_time < now
    /\ now < batch.end_time + SURVEY_INTERVAL_MINUTES
    /\ batch.end_time <= current_timestamp

----------------------------------------------------------------------------
(* The empty seed list *)

\* C24: a window with at least one verified submission whose BFS seed list
\* (the hashes over the threshold and the previous fragment's hashes) is
\* empty is still completed: the chain selection goes on to the bot_log row
\* with an empty fragment, it does not fail the attempt.
C24_EmptySeedCompleted ==
    [][ (/\ pc = "select"
         /\ loc.state_hash_df # {}
         /\ ChainSelection(txn, batch, loc.state_hash_df).queue_list = {})
        => pc' = "create_bot_log" ]_vars

----------------------------------------------------------------------------
(* The state and the database *)

\* C25: at the start of every iteration the state matches the database:
\* batch.start_time is the batch_end_epoch of the latest committed bot_log
\* row and batch.bot_log_id is its id, so that a restart, which takes both
\* from get_batch_timings, resumes with the same window and the same id.
C25_StateMatchesDatabase ==
    (pc = "main") =>
        LET last == committed.bot_logs[Len(committed.bot_logs)]
        IN /\ batch.start_time = FromTimestamp(last.batch_end_epoch)
           /\ batch.bot_log_id = last.id
           /\ batch = get_batch_timings(committed, SURVEY_INTERVAL_MINUTES)

----------------------------------------------------------------------------
(* The wait and the cached time *)

\* C26: the workers are never dispatched before the clock has reached
\* batch.end_time, although the wait compares end_time with the cached
\* current_timestamp; and whenever the wait sleeps, the dispatch starts no
\* earlier than end_time plus the two minutes.
C26_DispatchAfterWindowEnd ==
    [][ (pc = "wait") =>
          /\ pc' = "dispatch"
          /\ batch' = batch
          /\ now' >= batch.end_time
          /\ (now' # now) => now' >= batch.end_time + SafetyMarginMinutes ]_vars

\* the first dispatch is about to start after a wait that slept on a cached
\* time older than the clock: the clock is more than two minutes past the
\* end of the window
C26_Witness ==
    /\ pc = "dispatch"
    /\ ~env.ignore_application_status
    /\ advances = 0
    /\ attempts = 1
    /\ current_timestamp = now
    /\ now > batch.end_time + SafetyMarginMinutes

----------------------------------------------------------------------------
(* The end of an iteration *)

\* the step is a call of retry_batch
Retried == retrials_left' = retrials_left - 1 \/ (~stop /\ stop')

\* C27: every iteration ends in exactly one of advance_to_next_batch and
\* retry_batch, with loop_count one higher: a step that leaves process() is
\* one of the two and never both, and no step ends the iteration, and with
\* it the program, in any other way; the loop is left only on the stop flag.
C27_IterationEndsInAdvanceOrRetry ==
    [][ /\ (pc # "main" /\ pc' = "main") =>
             /\ loop_count' = loop_count + 1
             /\ Advanced \/ Retried
             /\ ~(Advanced /\ Retried)
        /\ (loop_count' # loop_count) => (pc # "main" /\ pc' = "main")
        /\ pc' # "crashed"
        /\ (pc' = "exit") => stop ]_vars

----------------------------------------------------------------------------
(* The wait and the clock *)

\* C28: wait_until_batch_ends sleeps exactly when batch.end_time is later
\* than the clock at the call; the sleep lasts (end_time - clock) plus the
\* two minutes and current_timestamp is refreshed after it; when end_time is
\* not later than the clock the wait returns without sleeping and without
\* changing the state.
C28_WaitSleepsOnClock ==
    [][ (pc = "wait") =>
          IF batch.end_time > now
          THEN /\ now' = now + (batch.end_time - now) + SafetyMarginMinutes
               /\ current_timestamp' = now'
          ELSE UNCHANGED <<now, current_timestamp, batch>> ]_vars

----------------------------------------------------------------------------
(* The overrun warning *)

\* C29: advance_to_next_batch logs the overrun warning when the work of the
\* window it completes overran; in particular the warning is logged when the
\* dispatch took longer than SURVEY_INTERVAL_MINUTES.
C29_OverrunWarned ==
    [][ (Advanced /\ Overran) => warned' ]_vars

----------------------------------------------------------------------------
(* The order of the steps of an iteration *)

\* the step of process() a position belongs to: 1 application status, 2 wait,
\* 3 dispatch, 4 read of the submissions, 5 batch persistence, 6 scoreboard
StepOf(p) ==
    CASE p = "status" -> 1
      [] p = "wait" -> 2
      [] p = "dispatch" -> 3
      [] p = "load" -> 4
      [] p \in PersistPcs \cup {"empty_bot_log", "except_batch"} -> 5
      [] p \in {"scoreboard", "insert_submissions", "scoreboard_commit",
                "except_scoreboard"} -> 6
      [] OTHER -> 0

\* C30: every iteration takes its steps in one order: the application status
\* update (once, and whatever its outcome the wait follows), the wait, the
\* dispatch, the read of the submissions (only after the dispatch has
\* returned), the batch persistence, the scoreboard, the advance.  A step is
\* followed by itself or by the next one; an iteration that fails stops at
\* the failing step and ends in the retry, and the advance is taken from the
\* scoreboard step only.
C30_StepOrder ==
    [][ /\ (pc = "main") => pc' \in {"status", "exit"}
        /\ (StepOf(pc) \in 1 .. 4 /\ pc' # "crashed") =>
               StepOf(pc') = StepOf(pc) + 1
        /\ (StepOf(pc) = 5 /\ pc' # "crashed") =>
               \/ StepOf(pc') = 5
               \/ (StepOf(pc') = 6 /\ pc \in {"commit", "empty_bot_log"})
               \/ (pc' = "main" /\ pc = "except_batch" /\ Retried)
        /\ (StepOf(pc) = 6 /\ pc' # "crashed") =>
               \/ StepOf(pc') = 6
               \/ (pc' = "main" /\ Advanced)
        /\ (pc' = "load") => pc = "dispatch"
        /\ Advanced => StepOf(pc) = 6
        /\ Retried => pc = "except_batch" ]_vars

\* an iteration that took the application status update and every step after
\* it has advanced, and the next one is at the read of its submissions
C30_Witness ==
    /\ pc = "load"
    /\ ~env.ignore_application_status
    /\ advances = 1
    /\ committed.scoreboard = batch.start_time
    /\ Len(committed.bot_logs) = 2

----------------------------------------------------------------------------
(* ExponentialBackOffRetryPolicy: the retry decisions of the Cassandra driver *)

\* the values of retry_num the policy is consulted with: 0 .. MaxRetryNum
MaxRetryNum == 12

\* ExponentialBackOffRetryPolicy.__init__ defaults; delays in milliseconds
base_delay == 100
max_delay == 10000
max_retries == 10

\* RetryPolicy decisions
RETRY == "RETRY"
RETHROW == "RETHROW"
RETRY_NEXT_HOST == "RETRY_NEXT_HOST"

\* consistency levels a query is run with
Consistencies == {"ONE", "LOCAL_QUORUM"}

Min(a, b) == IF a < b THEN a ELSE b

\* get_backoff_time: the capped exponential delay plus a jitter of 0 to a
\* tenth of it; `jitter` is what random.uniform(0, 0.1) * delay gave
get_backoff_time(retry_num, jitter) ==
    LET delay == Min(max_delay, base_delay * (2 ^ retry_num))
    IN delay + jitter

\* the jitters random.uniform(0, 0.1) * delay can give: both ends
Jitters(retry_num) ==
    LET delay == Min(max_delay, base_delay * (2 ^ retry_num))
    IN {0, delay \div 10}

\* on_read_timeout retrying whatever retry_num is
on_read_timeout_NoCap(consistency, retry_num) ==
    <<RETRY, consistency>>

\* on_read_timeout: the decision it returns
on_read_timeout(consistency, retry_num) ==
    IF retry_num >= max_retries
    THEN <<RETHROW, None>>
    ELSE <<RETRY, consistency>>

\* on_write_timeout: the decision it returns
on_write_timeout(consistency, retry_num) ==
    IF retry_num >= max_retries
    THEN <<RETHROW, None>>
    ELSE <<RETRY, consistency>>

\* on_unavailable: the decision it returns
on_unavailable(consistency, retry_num) ==
    IF retry_num >= max_retries
    THEN <<RETHROW, None>>
    ELSE <<RETRY_NEXT_HOST, None>>

\* a query in flight; the driver has retried it retry_num times already
InitRetry ==
    /\ InitUntouched
    /\ pc = "query"
    /\ loc \in { [first |-> n, retry_num |-> n, consistency |-> c,
                  handler |-> "", given |-> c, decision |-> <<"", None>>,
                  sleep |-> 0, retries |-> 0]
                 : n \in 0 .. MaxRetryNum, c \in Consistencies }

\* the driver acting on a decision: a retry runs the query again with the
\* returned consistency level, or with its own when none is returned, and
\* counts it; a rethrow gives the error to the caller
Decide(handler, decision, slept) ==
    /\ loc' = [loc EXCEPT
                 !.handler = handler,
                 !.given = loc.consistency,
                 !.decision = decision,
                 !.sleep = slept,
                 !.retry_num = IF decision[1] = RETHROW THEN @ ELSE @ + 1,
                 !.retries = IF decision[1] = RETHROW THEN @ ELSE @ + 1,
                 !.consistency = IF decision[2] = None THEN @
                                 ELSE decision[2]]
    /\ pc' = IF decision[1] = RETHROW THEN "rethrown" ELSE "query"
    /\ UNCHANGED Untouched

\* the time the handler sleeps before it returns: none before a rethrow
Slept(retry_num) ==
    IF retry_num >= max_retries THEN {0}
    ELSE { get_backoff_time(retry_num, j) : j \in Jitters(retry_num) }

\* the query times out on a read
OnReadTimeout ==
    /\ pc = "query"
    /\ \E slept \in Slept(loc.retry_num) :
         Decide("on_read_timeout",
                on_read_timeout(loc.consistency, loc.retry_num), slept)

\* the query times out on a write
OnWriteTimeout ==
    /\ pc = "query"
    /\ \E slept \in Slept(loc.retry_num) :
         Decide("on_write_timeout",
                on_write_timeout(loc.consistency, loc.retry_num), slept)

\* not enough replicas are alive for the query
OnUnavailable ==
    /\ pc = "query"
    /\ \E slept \in Slept(loc.retry_num) :
         Decide("on_unavailable",
                on_unavailable(loc.consistency, loc.retry_num), slept)

\* the query succeeds
QueryDone ==
    /\ pc = "query"
    /\ pc' = "done"
    /\ UNCHANGED loc
    /\ UNCHANGED Untouched

NextRetry == OnReadTimeout \/ OnWriteTimeout \/ OnUnavailable \/ QueryDone

SpecRetry == InitRetry /\ [][NextRetry]_vars

\* C31: for every retry_num, a handler of ExponentialBackOffRetryPolicy
\* consulted with retry_num >= max_retries returns RETHROW; below max_retries
\* on_read_timeout and on_write_timeout return RETRY with the consistency
\* level they were given and on_unavailable returns RETRY_NEXT_HOST; a query
\* that starts at retry_num 0 is retried at most max_retries times before
\* its error is rethrown.
C31_RetryPolicyDecisions ==
    /\ [][ (pc = "query" /\ pc' # "done") =>
            IF loc.retry_num >= max_retries
            THEN loc'.decision[1] = RETHROW /\ pc' = "rethrown"
            ELSE /\ pc' = "query"
                 /\ loc'.retry_num = loc.retry_num + 1
                 /\ (loc'.handler \in {"on_read_timeout", "on_write_timeout"})
                       => loc'.decision = <<RETRY, loc.consistency>>
                 /\ (loc'.handler = "on_unavailable")
                       => loc'.decision[1] = RETRY_NEXT_HOST ]_vars
    /\ []((pc \in {"query", "done", "rethrown"} /\ loc.first = 0) =>
             /\ loc.retries <= max_retries
             /\ (pc = "rethrown") => (loc.retries = max_retries))

\* a query that started at retry_num 0 was retried max_retries times, the
\* last time after a read timeout, and its next error was rethrown
C31_Witness ==
    /\ pc = "rethrown"
    /\ loc.first = 0
    /\ loc.retries = max_retries
    /\ loc.retry_num = max_retries
    /\ loc.handler = "on_read_timeout"
    /\ loc.decision = <<RETHROW, None>>
====
